---- MODULE Spec2Model ----
(***************************************************************************)
(* A model of ai_seo_auto_tagger.py: the AISeOAutoTagger class (its        *)
(* rule-based analyser, the AI call with its fallback, and the assembly of *)
(* the final metadata record) and the /generate web endpoint.              *)
(*                                                                         *)
(* A Python str is a sequence of one-character strings, a list is a        *)
(* sequence, a dict is a function whose DOMAIN is the set of its keys.     *)
(* None and "" are both the empty sequence for title, author and category: *)
(* the code only ever tests them for truth.                                *)
(***************************************************************************)
EXTENDS Naturals, Integers, Sequences, FiniteSets, TLC

VARIABLES
    GEMINI_AVAILABLE,   \* the import of google.generativeai succeeded
    GEMINI_API_KEY,     \* os.getenv('GEMINI_API_KEY'), <<>> when unset
    response,           \* what the Gemini model does when it is called
    blog_text,          \* the text the caller holds
    title,              \* the caller's title, <<>> when none
    author,             \* the caller's author, <<>> when none
    category,           \* the caller's category, <<>> when none
    today,              \* datetime.now().strftime('%Y-%m-%d')
    use_ai,             \* self.use_ai of the tagger the caller constructed
    call,               \* the operation that was invoked, with its text
    ret,                \* what it returned, or that it raised
    pc                  \* "idle" before the call, "done" after it

vars == <<GEMINI_AVAILABLE, GEMINI_API_KEY, response, blog_text, title, author,
          category, today, use_ai, call, ret, pc>>

(***************************************************************************)
(* Characters.                                                             *)
(***************************************************************************)
LowerAZ == <<"a", "b", "c", "d", "e", "f", "g", "h", "i", "j", "k", "l", "m",
             "n", "o", "p", "q", "r", "s", "t", "u", "v", "w", "x", "y", "z">>

UpperAZ == <<"A", "B", "C", "D", "E", "F", "G", "H", "I", "J", "K", "L", "M",
             "N", "O", "P", "Q", "R", "S", "T", "U", "V", "W", "X", "Y", "Z">>

Digits == <<"0", "1", "2", "3", "4", "5", "6", "7", "8", "9">>

Range(s) == {s[i] : i \in DOMAIN s}

LowerSet == Range(LowerAZ)
UpperSet == Range(UpperAZ)
DigitSet == Range(Digits)

\* \s of the re module, over the characters of the model
IsSpace(c) == c \in {" ", "\t", "\n"}

\* \w of the re module: letters, digits and the underscore
IsWordChar(c) == c \in LowerSet \cup UpperSet \cup DigitSet \cup {"_"}

ToLower == [c \in UpperSet |-> LowerAZ[CHOOSE i \in DOMAIN UpperAZ : UpperAZ[i] = c]]
ToUpper == [c \in LowerSet |-> UpperAZ[CHOOSE i \in DOMAIN LowerAZ : LowerAZ[i] = c]]

(***************************************************************************)
(* str methods.                                                            *)
(***************************************************************************)
Idx(n) == [i \in 1..n |-> i]

Min(a, b) == IF a < b THEN a ELSE b
Max(a, b) == IF a > b THEN a ELSE b

\* s[:n]
Prefix(s, n) == SubSeq(s, 1, Min(n, Len(s)))

\* s.lower()
str_lower(s) == [i \in 1..Len(s) |-> IF s[i] \in UpperSet THEN ToLower[s[i]] ELSE s[i]]

\* s.capitalize(): the first character upper-cased, the rest lower-cased
str_capitalize(s) ==
    [i \in 1..Len(s) |->
        IF i = 1 THEN (IF s[i] \in LowerSet THEN ToUpper[s[i]] ELSE s[i])
        ELSE (IF s[i] \in UpperSet THEN ToLower[s[i]] ELSE s[i])]

\* s.strip(): leading and trailing whitespace removed
str_strip(s) ==
    LET keep == {i \in 1..Len(s) : ~IsSpace(s[i])}
    IN  IF keep = {} THEN <<>>
        ELSE SubSeq(s, CHOOSE i \in keep : \A j \in keep : i <= j,
                       CHOOSE i \in keep : \A j \in keep : j <= i)

\* s.strip('-')
str_strip_hyphen(s) ==
    LET keep == {i \in 1..Len(s) : s[i] # "-"}
    IN  IF keep = {} THEN <<>>
        ELSE SubSeq(s, CHOOSE i \in keep : \A j \in keep : i <= j,
                       CHOOSE i \in keep : \A j \in keep : j <= i)

\* The maximal runs of characters of s at the positions where in is true
Runs(s, in) ==
    LET n == Len(s)
        starts == SelectSeq(Idx(n), LAMBDA i : in[i] /\ (i = 1 \/ ~in[i - 1]))
        ends == SelectSeq(Idx(n), LAMBDA i : in[i] /\ (i = n \/ ~in[i + 1]))
    IN  [k \in 1..Len(starts) |-> SubSeq(s, starts[k], ends[k])]

\* The maximal runs of \w characters of s
word_runs(s) == Runs(s, [i \in 1..Len(s) |-> IsWordChar(s[i])])

\* s.split(): the whitespace-separated tokens
str_split(s) == Runs(s, [i \in 1..Len(s) |-> ~IsSpace(s[i])])

\* s.split('\n')[0]: the text before the first newline
first_line(s) ==
    LET nl == {i \in 1..Len(s) : s[i] = "\n"}
    IN  IF nl = {} THEN s
        ELSE SubSeq(s, 1, (CHOOSE i \in nl : \A j \in nl : i <= j) - 1)

\* str(n) of a natural number
RECURSIVE int_str(_)
int_str(n) == IF n < 10 THEN <<Digits[n + 1]>>
              ELSE Append(int_str(n \div 10), Digits[(n % 10) + 1])

(***************************************************************************)
(* The lengths and counts the code fixes.                                  *)
(***************************************************************************)
TITLE_MAX == 60          \* title[:60]
SLUG_MAX == 60           \* ...strip('-')[:60]
DESC_MAX == 155          \* meta_desc[:155], blog_text[:155]
OG_DESC_MAX == 200       \* og_description[:200]
MIN_WORD_LEN == 3        \* [a-z]{3,}
MAX_HEADING_HASHES == 3  \* #{1,3}
MIN_SENTENCE_LEN == 20   \* len(s.strip()) > 20
MAX_SENTENCES == 2       \* clean_sentences[:2]
MAX_KEYWORDS == 10       \* [:10]
MAX_TAGS == 8            \* keywords[:8]
MAX_SEMANTIC == 5        \* min(5, len(keywords)-1)
MAX_TOPICS == 5          \* topics[:5]
WORDS_PER_MINUTE == 200  \* word_count / 200

(***************************************************************************)
(* rule_based_analysis and the regular expressions it uses.                *)
(***************************************************************************)
SetMin(S) == CHOOSE i \in S : \A j \in S : i <= j
SetMax(S) == CHOOSE i \in S : \A j \in S : j <= i

\* re.sub(r'^#+\s*', '', l): the leading '#' characters and the whitespace
\* after them removed; l unchanged when it does not start with '#'
strip_heading_marker(l) ==
    LET n == Len(l)
        nonhash == {i \in 1..n : l[i] # "#"}
        h == IF nonhash = {} THEN n ELSE SetMin(nonhash) - 1
        nonws == {i \in (h + 1)..n : ~IsSpace(l[i])}
        w == IF nonws = {} THEN n ELSE SetMin(nonws) - 1
    IN  IF h = 0 THEN l ELSE SubSeq(l, w + 1, n)

\* lines = blog_text.strip().split('\n');
\* title = re.sub(r'^#+\s*', '', lines[0]).strip() if lines else "Untitled"
\* split never returns an empty list, so lines is never empty
resolve_title(text, given) ==
    IF given # <<>> THEN given
    ELSE str_strip(strip_heading_marker(first_line(str_strip(text))))

\* re.findall(r'\b[a-z]{3,}\b', s): \b stands only at the ends of a maximal
\* run of \w characters, so a match is a whole run made of a-z, 3 or longer
find_words(s) ==
    SelectSeq(word_runs(s),
              LAMBDA r : Len(r) >= MIN_WORD_LEN /\ \A i \in 1..Len(r) : r[i] \in LowerSet)

stop_words == { <<"t", "h", "e">>, <<"a", "n", "d">>, <<"f", "o", "r">>,
                <<"w", "i", "t", "h">>, <<"t", "h", "i", "s">>, <<"t", "h", "a", "t">>,
                <<"f", "r", "o", "m">>, <<"h", "a", "v", "e">>, <<"w", "i", "l", "l">> }

\* the loop filling word_freq: its items() in insertion order, <<word, count>>
word_freq(words) ==
    LET kept == SelectSeq(words, LAMBDA w : w \notin stop_words)
        firsts == SelectSeq(Idx(Len(kept)),
                            LAMBDA i : \A j \in 1..(i - 1) : kept[j] # kept[i])
    IN  [k \in 1..Len(firsts) |->
            <<kept[firsts[k]],
              Cardinality({i \in 1..Len(kept) : kept[i] = kept[firsts[k]]})>>]

\* a slip: reverse=True left out, the rarest words first
sorted_by_count_ascending(items) ==
    LET n == Len(items)
        rank(k) == 1 + Cardinality({j \in 1..n :
                        \/ items[j][2] < items[k][2]
                        \/ items[j][2] = items[k][2] /\ j < k})
    IN  [p \in 1..n |-> items[CHOOSE k \in 1..n : rank(k) = p]]

\* sorted(items, key=lambda x: x[1], reverse=True): a stable sort, so items
\* of equal count keep their order
sorted_by_count(items) ==
    LET n == Len(items)
        rank(k) == 1 + Cardinality({j \in 1..n :
                        \/ items[j][2] > items[k][2]
                        \/ items[j][2] = items[k][2] /\ j < k})
    IN  [p \in 1..n |-> items[CHOOSE k \in 1..n : rank(k) = p]]

\* keywords = [word for word, _ in sorted(...)[:10]]
extract_keywords(text) ==
    LET top_words == Prefix(sorted_by_count(word_freq(find_words(str_lower(text)))),
                            MAX_KEYWORDS)
    IN  [k \in 1..Len(top_words) |-> top_words[k][1]]

\* re.sub(r'^#+.*$', '', s, flags=re.MULTILINE): every line that starts with
\* '#' loses its characters and keeps its newline
remove_heading_lines(s) ==
    LET n == Len(s)
        nl == {i \in 1..n : s[i] = "\n"}
        line_start(i) == LET before == {j \in nl : j < i}
                         IN  IF before = {} THEN 1 ELSE SetMax(before) + 1
        keep == SelectSeq(Idx(n), LAMBDA i : s[i] = "\n" \/ s[line_start(i)] # "#")
    IN  [k \in 1..Len(keep) |-> s[keep[k]]]

\* [s.strip() for s in re.split(r'[.!?]+', t) if len(s.strip()) > 20]
clean_sentences(t) ==
    LET pieces == Runs(t, [i \in 1..Len(t) |-> t[i] \notin {".", "!", "?"}])
        stripped == [k \in 1..Len(pieces) |-> str_strip(pieces[k])]
    IN  SelectSeq(stripped, LAMBDA p : Len(p) > MIN_SENTENCE_LEN)

\* '. '.join(l)
join_sentences(l) ==
    IF Len(l) = 0 THEN <<>>
    ELSE IF Len(l) = 1 THEN l[1]
    ELSE l[1] \o <<".", " ">> \o l[2]

\* meta_desc = '. '.join(clean_sentences[:2])[:155]
make_meta_desc(text) ==
    Prefix(join_sentences(Prefix(clean_sentences(remove_heading_lines(text)),
                                 MAX_SENTENCES)), DESC_MAX)

\* One match of r'^#{1,3}\s+(.+)$' at the line start p: 1 to 3 '#', then
\* whitespace (\s+ runs over newlines too), then the rest of a line. When
\* the whitespace runs to the end of the text, \s+ gives characters back
\* until (.+) finds one that is not a newline.
heading_match(s, p) ==
    LET n == Len(s)
        nonhash == {i \in p..n : s[i] # "#"}
        q0 == IF nonhash = {} THEN n + 1 ELSE SetMin(nonhash)
        nonws == {i \in q0..n : ~IsSpace(s[i])}
        q == IF nonws = {} THEN n + 1 ELSE SetMin(nonws)
        back == {k \in (q0 + 1)..n : s[k] # "\n"}
        from == IF q <= n THEN q ELSE IF back = {} THEN 0 ELSE SetMax(back)
        nls == {i \in from..n : s[i] = "\n"}
        to == IF nls = {} THEN n ELSE SetMin(nls) - 1
    IN  IF /\ q0 - p >= 1 /\ q0 - p <= MAX_HEADING_HASHES
           /\ q0 <= n /\ IsSpace(s[q0])
           /\ from > 0
        THEN [ok |-> TRUE, from |-> from, to |-> to]
        ELSE [ok |-> FALSE, from |-> 0, to |-> 0]

\* re.findall over the line starts ls[k..]: matches do not overlap, so a
\* line start inside the previous match (at or before pos) is passed over
RECURSIVE findall_headings(_, _, _, _)
findall_headings(s, ls, k, pos) ==
    IF k > Len(ls) THEN <<>>
    ELSE IF ls[k] <= pos THEN findall_headings(s, ls, k + 1, pos)
    ELSE LET m == heading_match(s, ls[k])
         IN  IF m.ok
             THEN <<SubSeq(s, m.from, m.to)>> \o findall_headings(s, ls, k + 1, m.to)
             ELSE findall_headings(s, ls, k + 1, pos)

\* topics = re.findall(r'^#{1,3}\s+(.+)$', blog_text, re.MULTILINE)
find_topics(s) ==
    LET ls == SelectSeq(Idx(Len(s)),
                        LAMBDA i : s[i] = "#" /\ (i = 1 \/ s[i - 1] = "\n"))
    IN  findall_headings(s, ls, 1, 0)

STR_content == <<"c", "o", "n", "t", "e", "n", "t">>
STR_General == <<"G", "e", "n", "e", "r", "a", "l">>
STR_general_readers == <<"g", "e", "n", "e", "r", "a", "l", " ", "r", "e", "a", "d", "e", "r", "s">>
STR_informational == <<"i", "n", "f", "o", "r", "m", "a", "t", "i", "o", "n", "a", "l">>
STR_general == <<"g", "e", "n", "e", "r", "a", "l">>

\* a slip: no 'content' default when no keyword was found
pick_focus_keyword_no_default(keywords) ==
    IF keywords # <<>> THEN keywords[1] ELSE <<>>

\* keywords[0] if keywords else 'content'
pick_focus_keyword(keywords) ==
    IF keywords # <<>> THEN keywords[1] ELSE STR_content

rule_based_analysis(text, given_title) ==
    LET resolved == resolve_title(text, given_title)
        keywords == extract_keywords(text)
        meta_desc == make_meta_desc(text)
        topics == find_topics(text)
    IN  [ focus_keyword |-> pick_focus_keyword(keywords),
          keywords |-> Prefix(keywords, MAX_KEYWORDS),
          semantic_keywords |->
              [i \in 1..Max(0, Min(MAX_SEMANTIC, Len(keywords) - 1)) |->
                  keywords[i] \o <<" ">> \o keywords[i + 1]],
          meta_description |-> IF meta_desc # <<>> THEN meta_desc
                               ELSE Prefix(text, DESC_MAX),
          meta_title |-> Prefix(resolved, TITLE_MAX),
          tags |-> [i \in 1..Min(MAX_TAGS, Len(keywords)) |-> str_capitalize(keywords[i])],
          category |-> STR_General,
          entities |-> <<>>,
          topics |-> Prefix(topics, MAX_TOPICS),
          faq_questions |-> <<>>,
          target_audience |-> STR_general_readers,
          content_intent |-> STR_informational,
          readability_level |-> STR_general,
          key_takeaways |-> <<>> ]

(***************************************************************************)
(* dicts and the values json.loads gives.                                  *)
(***************************************************************************)
EmptyDict == [k \in {} |-> <<>>]

\* a slip: the default left out, so a missing key gives an empty value
dict_get_without_default(d, k, default) == IF k \in DOMAIN d THEN d[k] ELSE <<>>

\* d.get(k, default)
dict_get(d, k, default) == IF k \in DOMAIN d THEN d[k] ELSE default

\* d[k] = v
dict_set(d, k, v) == [x \in (DOMAIN d) \cup {k} |-> IF x = k THEN v ELSE d[x]]

\* A Python value as ai_analyze_content returns it: None, a dict (a JSON
\* object), or a non-empty list (a JSON array)
PyNone == [type |-> "None", fields |-> EmptyDict]
PyDict(d) == [type |-> "dict", fields |-> d]
PyList == [type |-> "list", fields |-> EmptyDict]

\* bool(v): None and the empty dict are false
truthy(v) == v.type = "list" \/ (v.type = "dict" /\ DOMAIN v.fields # {})

(***************************************************************************)
(* AISeOAutoTagger.                                                        *)
(***************************************************************************)
\* __init__(api_key, use_ai): self.use_ai after construction. self.model
\* exists exactly when self.use_ai is true.
AISeOAutoTagger_init(api_key, use_ai_arg, available, env_key) ==
    LET wanted == use_ai_arg /\ available
        key == IF api_key # <<>> THEN api_key ELSE env_key
    IN  wanted /\ key # <<>>

\* ai_analyze_content: the call of the model and json.loads, inside the try.
\* Without self.model the attribute lookup raises inside the try as well.
ai_analyze_content(has_model, resp) ==
    IF ~has_model THEN PyNone
    ELSE IF resp.kind = "raises" THEN PyNone
    ELSE IF resp.kind = "not_json" THEN PyNone
    ELSE resp.json

\* a slip: whatever the AI call returned is used, None included
analyze_without_fallback(tagger_use_ai, resp, text, given_title) ==
    IF tagger_use_ai THEN ai_analyze_content(TRUE, resp)
    ELSE PyDict(rule_based_analysis(text, given_title))

\* the analysis generate_seo_metadata starts with: AI first, rules if it
\* is off or gave nothing
analyze(tagger_use_ai, resp, text, given_title) ==
    IF tagger_use_ai
    THEN LET ai_metadata == ai_analyze_content(TRUE, resp)
         IN  IF truthy(ai_metadata) THEN ai_metadata
             ELSE PyDict(rule_based_analysis(text, given_title))
    ELSE PyDict(rule_based_analysis(text, given_title))

\* the user's overrides
apply_overrides(base, given_title, given_author, given_category) ==
    LET b1 == IF given_title # <<>>
              THEN dict_set(base, "meta_title", Prefix(given_title, TITLE_MAX))
              ELSE base
        b2 == IF given_author # <<>> THEN dict_set(b1, "author", given_author) ELSE b1
    IN  IF given_category # <<>> THEN dict_set(b2, "category", given_category) ELSE b2

\* a slip: split(' ') in place of split(), so a newline separates nothing
count_words_spaces_only(text) == Len(Runs(text, [i \in 1..Len(text) |-> text[i] # " "]))

\* word_count = len(blog_text.split())
count_words(text) == Len(str_split(text))

\* a slip: int(n / d + 0.5), which rounds a half up
round_half_up(n, d) == (2 * n + d) \div (2 * d)

\* round(n / d) of Python 3: to the nearest integer, a half to the even one
py_round(n, d) ==
    LET q == n \div d
        r == n % d
    IN  IF 2 * r < d THEN q
        ELSE IF 2 * r > d THEN q + 1
        ELSE IF q % 2 = 0 THEN q ELSE q + 1

\* reading_time = max(1, round(word_count / 200))
reading_minutes(word_count) == Max(1, py_round(word_count, WORDS_PER_MINUTE))

\* re.sub(r'[^\w\s-]', '', s)
remove_non_slug_chars(s) ==
    SelectSeq(s, LAMBDA c : IsWordChar(c) \/ IsSpace(c) \/ c = "-")

\* re.sub(r'[-\s]+', '-', s)
collapse_separators(s) ==
    LET sep(c) == IsSpace(c) \/ c = "-"
        keep == SelectSeq(Idx(Len(s)),
                          LAMBDA i : ~sep(s[i]) \/ i = 1 \/ ~sep(s[i - 1]))
    IN  [k \in 1..Len(keep) |-> IF sep(s[keep[k]]) THEN "-" ELSE s[keep[k]]]

\* slug = re.sub(r'[^\w\s-]', '', slug_title.lower())
\* slug = re.sub(r'[-\s]+', '-', slug).strip('-')[:60]
slugify(slug_title) ==
    Prefix(str_strip_hyphen(collapse_separators(remove_non_slug_chars(str_lower(slug_title)))),
           SLUG_MAX)

STR_Untitled == <<"U", "n", "t", "i", "t", "l", "e", "d">>
STR_untitled == <<"u", "n", "t", "i", "t", "l", "e", "d">>
STR_Content_Team == <<"C", "o", "n", "t", "e", "n", "t", " ", "T", "e", "a", "m">>
STR_min_read == <<" ", "m", "i", "n", " ", "r", "e", "a", "d">>

\* complete_metadata, from the base metadata after the overrides
complete_metadata(b, text, date) ==
    LET word_count == count_words(text)
        slug == slugify(dict_get(b, "meta_title", STR_untitled))
    IN  [ title |-> dict_get(b, "meta_title", STR_Untitled),
          meta_title |-> dict_get(b, "meta_title", STR_Untitled),
          meta_description |-> dict_get(b, "meta_description", <<>>),
          author |-> dict_get(b, "author", STR_Content_Team),
          date |-> date,
          category |-> dict_get(b, "category", STR_General),
          slug |-> slug,
          canonical_url |-> <<"/">> \o slug,
          robots |-> "index, follow",
          focus_keyword |-> dict_get(b, "focus_keyword", <<>>),
          keywords |-> dict_get(b, "keywords", <<>>),
          tags |-> dict_get(b, "tags", <<>>),
          semantic_keywords |-> dict_get(b, "semantic_keywords", <<>>),
          og_title |-> dict_get(b, "meta_title", <<>>),
          og_description |-> Prefix(dict_get(b, "meta_description", <<>>), OG_DESC_MAX),
          og_type |-> "article",
          twitter_card |-> "summary_large_image",
          schema_type |-> "BlogPosting",
          reading_time |-> int_str(reading_minutes(word_count)) \o STR_min_read,
          word_count |-> word_count,
          faq_schema |-> dict_get(b, "faq_questions", <<>>),
          entities |-> dict_get(b, "entities", <<>>),
          topics |-> dict_get(b, "topics", <<>>),
          target_audience |-> dict_get(b, "target_audience", <<>>),
          content_intent |-> dict_get(b, "content_intent", STR_informational),
          readability_level |-> dict_get(b, "readability_level", <<>>),
          key_takeaways |-> dict_get(b, "key_takeaways", <<>>) ]

Returned(v) == [status |-> "returned", value |-> v]
Raised == [status |-> "raised", value |-> EmptyDict]
NotCalled == [status |-> "none", value |-> EmptyDict]

\* generate_seo_metadata: a base that is no dict (a JSON array) has neither
\* item assignment by key nor .get, and the call raises
generate_seo_metadata(tagger_use_ai, resp, text, given_title, given_author, given_category, date) ==
    LET base_metadata == analyze(tagger_use_ai, resp, text, given_title)
    IN  IF base_metadata.type # "dict" THEN Raised
        ELSE Returned(complete_metadata(
                 apply_overrides(base_metadata.fields, given_title, given_author,
                                 given_category),
                 text, date))

(***************************************************************************)
(* The /generate route.                                                    *)
(***************************************************************************)
STR_AI_failed == <<"A", "I", " ", "f", "a", "i", "l", "e", "d">>
STR_No_blog_text == <<"N", "o", " ", "b", "l", "o", "g", " ", "t", "e", "x", "t", " ",
                      "p", "r", "o", "v", "i", "d", "e", "d">>

HTTP_OK == 200
HTTP_BAD_REQUEST == 400
HTTP_SERVER_ERROR == 500

\* generate(): has_text is whether the request's JSON carries blog_text
generate(has_text, text, available, env_key, resp) ==
    IF ~has_text \/ text = <<>>
    THEN [code |-> HTTP_BAD_REQUEST, error |-> STR_No_blog_text, body |-> PyNone]
    ELSE LET tagger_use_ai == AISeOAutoTagger_init(<<>>, TRUE, available, env_key)
             metadata == ai_analyze_content(tagger_use_ai, resp)
         IN  IF ~truthy(metadata)
             THEN [code |-> HTTP_SERVER_ERROR, error |-> STR_AI_failed, body |-> PyNone]
             ELSE [code |-> HTTP_OK, error |-> <<>>, body |-> metadata]

(***************************************************************************)
(* The inputs the model draws from.                                        *)
(***************************************************************************)
MaxTextLen == 3     \* the longest text made of every combination of characters
MaxAbsent == 2      \* the most fields an AI answer lacks, or the most it has
MaxTail == 2        \* the most words appended to the text of many words
MaxPad == 3         \* the filler words around each half-way word count

TextAlphabet == {"#", " ", "\n", "a"}

SeqsUpTo(A, n) == UNION {[1..k -> A] : k \in 0..n}

\* s repeated n times
Rep(s, n) == [i \in 1..(n * Len(s)) |-> s[((i - 1) % Len(s)) + 1]]

ShortTexts == SeqsUpTo(TextAlphabet, MaxTextLen)

ScenarioText == <<"#", " ", "H", "e", "l", "l", "o", " ", "W", "o", "r", "l", "d", "\n",
    "T", "h", "i", "s", " ", "i", "s", " ", "a", " ", "t", "e", "s", "t", " ",
    "b", "l", "o", "g", " ", "a", "b", "o", "u", "t", " ",
    "t", "e", "s", "t", "i", "n", "g", " ", "s", "o", "f", "t", "w", "a", "r", "e", " ",
    "q", "u", "a", "l", "i", "t", "y", " ", "a", "n", "d", " ",
    "s", "o", "f", "t", "w", "a", "r", "e", " ", "q", "u", "a", "l", "i", "t", "y", " ",
    "m", "e", "t", "r", "i", "c", "s", ".">>

\* a text whose first line is longer than 60 characters
LongLineText == <<"#", "#", " ">> \o Rep(<<"T", "o", "p", " ">>, 17) \o <<"\n", "e", "n", "d">>

ShortTitle == <<"H", "i", "_", "Y", "o", "!", " ", "-", "2">>
LongTitle == Rep(<<"L", "o", "n", "g", " ">>, 13)
Titles == {<<>>, ShortTitle, LongTitle}

AUTHOR == <<"A", "l">>
CATEGORY == <<"T", "e", "c", "h">>
API_KEY == <<"k", "e", "y">>
Dates == {"2026-01-15"}

\* author and category, given or not
People == {<<>>, AUTHOR} \X {<<>>, CATEGORY}

\* The 14 fields the prompt asks the model for
BaseFields == {"focus_keyword", "keywords", "semantic_keywords", "meta_description",
               "meta_title", "tags", "category", "entities", "topics",
               "faq_questions", "target_audience", "content_intent",
               "readability_level", "key_takeaways"}

AI_TITLE == <<"A", "I", " ", "S", "E", "O">>
\* 59 letters, a space and a letter: the 60th character of its slug is '-'
AI_LONG_TITLE == Rep(<<"a">>, 59) \o <<" ", "b">>

\* An answer with every field
AIFull(meta_title) ==
    [ focus_keyword |-> <<"s", "e", "o">>,
      keywords |-> << <<"s", "e", "o">>, <<"a", "i">> >>,
      semantic_keywords |-> << <<"s", "e", "o", " ", "a", "i">> >>,
      meta_description |-> <<"A", "n", " ", "A", "I", " ", "d", "e", "s", "c", ".">>,
      meta_title |-> meta_title,
      tags |-> << <<"S", "e", "o">> >>,
      category |-> <<"B", "u", "s", "i", "n", "e", "s", "s">>,
      entities |-> << <<"G", "o", "o", "g", "l", "e">> >>,
      topics |-> << <<"S", "E", "O">> >>,
      faq_questions |-> << [question |-> <<"Q", "?">>, answer |-> <<"A", ".">>] >>,
      target_audience |-> <<"m", "a", "r", "k", "e", "t", "e", "r", "s">>,
      content_intent |-> <<"c", "o", "m", "m", "e", "r", "c", "i", "a", "l">>,
      readability_level |-> <<"c", "o", "l", "l", "e", "g", "e">>,
      key_takeaways |-> << <<"U", "s", "e", " ", "A", "I">> >> ]

\* The answer AIFull without the fields of absent
AIWithout(meta_title, absent) ==
    [k \in BaseFields \ absent |-> AIFull(meta_title)[k]]

NoModel == [kind |-> "no_model", json |-> PyNone]
RaisesResponse == [kind |-> "raises", json |-> PyNone]
NotJsonResponse == [kind |-> "not_json", json |-> PyNone]
JsonResponse(v) == [kind |-> "json", json |-> v]

\* generate_content raises; the text is no JSON; the JSON is null, an
\* array, an empty object, or an object with the fields
FailingResponses == {RaisesResponse, NotJsonResponse}
OddResponses == {JsonResponse(PyNone), JsonResponse(PyList), JsonResponse(PyDict(EmptyDict))}
FullResponses == {JsonResponse(PyDict(AIFull(t))) : t \in {AI_TITLE, AI_LONG_TITLE}}

\* AI answers that lack up to MaxAbsent fields, or have up to MaxAbsent
AbsentSets == {S \in SUBSET BaseFields :
                  Cardinality(S) <= MaxAbsent \/ Cardinality(BaseFields \ S) <= MaxAbsent}
PartialResponses == {JsonResponse(PyDict(AIWithout(AI_TITLE, S))) : S \in AbsentSets}

\* Texts of about 0, 100, 300 and 500 words, where word_count / 200 is at
\* or near a half
HalfwayCounts == {100, 300, 500}
PadCounts == {c \in 0..(500 + MaxPad) :
                 \E h \in {0} \cup HalfwayCounts : c - h \in (0 - MaxPad)..MaxPad}
PadTexts == {Rep(<<"w", " ">>, c) : c \in PadCounts}
SpacedTexts == SeqsUpTo({" ", "\n", "\t", "a"}, MaxTextLen)

\* Texts of many words: eleven different words, a stop word and two runs
\* that are no words, then up to MaxTail more words
ManyWordsText == <<"A", "a", "a", " ", "b", "b", "b", ",", " ", "c", "c", "c", ".", " ", "d", "d", "d", " ", "e", "e", "e", "\n", "f", "f", "f", " ", "g", "g", "g", " ", "h", "h", "h", " ", "i", "i", "i", " ", "j", "j", "j", " ", "k", "k", "k", " ", "t", "h", "e", " ", "a", "b", "1", " ", "x", "_", "y">>
FewWordsText == <<"c", "c", "c", " ", "t", "h", "e", " ", "b", "b", "b", " ", "c", "c", "c">>
TailWords == { <<"k", "k", "k">>, <<"t", "h", "e">>, <<"B", "b", "b">>, <<"j", "j", "j">> }
Tails == SeqsUpTo(TailWords, MaxTail)
RECURSIVE JoinWords(_)
JoinWords(ws) == IF ws = <<>> THEN <<>> ELSE <<" ">> \o ws[1] \o JoinWords(Tail(ws))
WordTexts == {base \o JoinWords(t) : base \in {<<>>, FewWordsText, ManyWordsText},
                                     t \in Tails}

(***************************************************************************)
(* The state machine: one call of one operation, on inputs drawn by Init.  *)
(***************************************************************************)
InitOver(Texts, GivenTitles, GivenPeople, Responses) ==
    /\ GEMINI_AVAILABLE \in BOOLEAN
    /\ GEMINI_API_KEY \in {<<>>, API_KEY}
    /\ use_ai = AISeOAutoTagger_init(<<>>, TRUE, GEMINI_AVAILABLE, GEMINI_API_KEY)
    /\ response \in (IF use_ai THEN Responses ELSE {NoModel})
    /\ blog_text \in Texts
    /\ title \in GivenTitles
    /\ \E p \in GivenPeople : author = p[1] /\ category = p[2]
    /\ today \in Dates
    /\ call = [op |-> "none", has_text |-> FALSE]
    /\ ret = NotCalled
    /\ pc = "idle"

inputs == <<GEMINI_AVAILABLE, GEMINI_API_KEY, response, blog_text, title, author,
            category, today, use_ai>>

\* tagger.generate_seo_metadata(blog_text, title, author, category)
CallGenerateSeoMetadata ==
    /\ pc = "idle"
    /\ call' = [op |-> "generate_seo_metadata", has_text |-> TRUE]
    /\ ret' = generate_seo_metadata(use_ai, response, blog_text, title, author,
                                    category, today)
    /\ pc' = "done"
    /\ UNCHANGED inputs

\* tagger.rule_based_analysis(blog_text, title)
CallRuleBasedAnalysis ==
    /\ pc = "idle"
    /\ call' = [op |-> "rule_based_analysis", has_text |-> TRUE]
    /\ ret' = Returned(rule_based_analysis(blog_text, title))
    /\ pc' = "done"
    /\ UNCHANGED inputs

\* POST /generate with a JSON body that carries blog_text or does not
PostGenerate ==
    /\ pc = "idle"
    /\ \E has_text \in BOOLEAN :
          /\ call' = [op |-> "generate", has_text |-> has_text]
          /\ ret' = Returned(generate(has_text, blog_text, GEMINI_AVAILABLE,
                                      GEMINI_API_KEY, response))
    /\ pc' = "done"
    /\ UNCHANGED inputs

Next == CallGenerateSeoMetadata \/ CallRuleBasedAnalysis \/ PostGenerate

Init == InitOver(ShortTexts \cup {ScenarioText, LongLineText}, Titles, People,
                 FailingResponses \cup OddResponses \cup FullResponses)

Spec == Init /\ [][Next]_vars

\* AI answers with fields absent
InitMissing == InitOver({<<>>, ScenarioText}, {<<>>, ShortTitle}, People,
                        PartialResponses \cup FailingResponses \cup OddResponses)

SpecMissing == InitMissing /\ [][Next]_vars

\* texts by their number of words
InitWords == InitOver(PadTexts \cup SpacedTexts, {<<>>}, {<< <<>>, <<>> >>},
                      FailingResponses)

SpecWords == InitWords /\ [][Next]_vars

\* texts by their keywords
InitKeywords == InitOver(WordTexts, {<<>>}, {<< <<>>, <<>> >>}, FailingResponses)

SpecKeywords == InitKeywords /\ [][Next]_vars

(***************************************************************************)
(* What the claims speak of.                                               *)
(***************************************************************************)
Done(op) == pc = "done" /\ call.op = op

\* the AI call raised, or its text did not parse as JSON
AIFailed == use_ai /\ response \in FailingResponses

\* CollaboratorUnavailable: not configured, the call raises, or the output
\* is malformed
CollaboratorUnavailable == ~use_ai \/ response \in FailingResponses

\* generate_seo_metadata took the rule-based path
HeuristicPath == ~use_ai \/ ~truthy(ai_analyze_content(TRUE, response))

STR_Hello_World == <<"H", "e", "l", "l", "o", " ", "W", "o", "r", "l", "d">>
STR_hello_world == <<"h", "e", "l", "l", "o", "-", "w", "o", "r", "l", "d">>
STR_software == <<"s", "o", "f", "t", "w", "a", "r", "e">>
STR_quality == <<"q", "u", "a", "l", "i", "t", "y">>

\* C1: when the AI call raises or returns text that is no JSON,
\* generate_seo_metadata raises nothing and returns a record whose base
\* fields are the ones rule_based_analysis computes for the same text and
\* title (author and category being the caller's when the caller gave them)
C1_FallbackOnAIFailure ==
    (Done("generate_seo_metadata") /\ AIFailed) =>
        /\ ret.status = "returned"
        /\ LET rb == rule_based_analysis(blog_text, title)
               m == ret.value
           IN  /\ m.focus_keyword = rb.focus_keyword
               /\ m.keywords = rb.keywords
               /\ m.semantic_keywords = rb.semantic_keywords
               /\ m.meta_description = rb.meta_description
               /\ m.meta_title = rb.meta_title
               /\ m.title = rb.meta_title
               /\ m.tags = rb.tags
               /\ m.entities = rb.entities
               /\ m.topics = rb.topics
               /\ m.faq_schema = rb.faq_questions
               /\ m.target_audience = rb.target_audience
               /\ m.content_intent = rb.content_intent
               /\ m.readability_level = rb.readability_level
               /\ m.key_takeaways = rb.key_takeaways
               /\ m.category = (IF category # <<>> THEN category ELSE rb.category)

C1_Witness ==
    /\ Done("generate_seo_metadata")
    /\ response = RaisesResponse /\ use_ai
    /\ blog_text = ScenarioText /\ title = <<>> /\ author = AUTHOR
    /\ ret.status = "returned"
    /\ ret.value.focus_keyword = STR_software

\* C2: a POST /generate with a non-empty blog_text never answers with an
\* error when the collaborator is unavailable: it answers 200 with
\* metadata; only an empty or missing blog_text gives a client error
C2_EndpointFallsBack ==
    Done("generate") =>
        /\ (call.has_text /\ blog_text # <<>> /\ CollaboratorUnavailable)
              => (ret.value.code = HTTP_OK /\ ret.value.body.type = "dict")
        /\ (ret.value.code = HTTP_BAD_REQUEST) <=> (~call.has_text \/ blog_text = <<>>)

\* C4: the slug of every returned record is made of lowercase letters,
\* digits and hyphens only, is at most 60 long, and neither starts nor ends
\* with a hyphen
C4_SlugShape ==
    (Done("generate_seo_metadata") /\ ret.status = "returned") =>
        LET slug == ret.value.slug
        IN  /\ \A i \in 1..Len(slug) : slug[i] \in LowerSet \cup DigitSet \cup {"-"}
            /\ Len(slug) <= 60
            /\ slug # <<>> => (slug[1] # "-" /\ slug[Len(slug)] # "-")

\* C5: the slug derivation is idempotent: applied to the slug of a returned
\* record it gives that slug again
C5_SlugIdempotent ==
    (Done("generate_seo_metadata") /\ ret.status = "returned") =>
        slugify(ret.value.slug) = ret.value.slug

\* C7: rule_based_analysis("") raises nothing and returns focus_keyword
\* "content", no keywords, an empty meta_description, and the other derived
\* fields empty or at their defaults
C7_EmptyText ==
    (Done("rule_based_analysis") /\ blog_text = <<>>) =>
        /\ ret.status = "returned"
        /\ ret.value.focus_keyword = STR_content
        /\ ret.value.keywords = <<>>
        /\ ret.value.meta_description = <<>>
        /\ ret.value.semantic_keywords = <<>>
        /\ ret.value.tags = <<>>
        /\ ret.value.topics = <<>>
        /\ ret.value.entities = <<>>
        /\ ret.value.faq_questions = <<>>
        /\ ret.value.key_takeaways = <<>>
        /\ ret.value.category = STR_General
        /\ ret.value.content_intent = STR_informational

C7_Witness ==
    /\ Done("rule_based_analysis")
    /\ blog_text = <<>> /\ title = <<>>
    /\ ret.value.focus_keyword = STR_content

\* the scenario of C8, with the word count n
ScenarioResult(n) ==
    (/\ Done("generate_seo_metadata") /\ HeuristicPath
     /\ blog_text = ScenarioText /\ title = <<>>) =>
        /\ ret.status = "returned"
        /\ ret.value.meta_title = STR_Hello_World
        /\ ret.value.slug = STR_hello_world
        /\ ret.value.topics = <<STR_Hello_World>>
        /\ STR_software \in Range(ret.value.keywords)
        /\ STR_quality \in Range(ret.value.keywords)
        /\ ret.value.word_count = n

\* C8: for the text "# Hello World\nThis is a test blog about testing
\* software quality and software quality metrics.", no title and the
\* rule-based path, the record has meta_title "Hello World", slug
\* "hello-world", topics ["Hello World"], keywords with "software" and
\* "quality", and word_count 15
C8_Scenario_Original == ScenarioResult(15)

\* C8 as amended: the same, with word_count 16 (the heading's three tokens
\* '#', 'Hello', 'World' and the sentence's thirteen)
C8_Scenario == ScenarioResult(16)

C8_Witness ==
    /\ Done("generate_seo_metadata") /\ HeuristicPath
    /\ blog_text = ScenarioText /\ title = <<>>
    /\ ret.status = "returned"
    /\ ret.value.word_count = 16

\* C9: rule_based_analysis resolves the title: with no title given,
\* meta_title is the first line of the text without its leading '#' markers
\* and the whitespace after them, cut to 60 characters, and it is
\* "Untitled" when the text is empty; with a title given, it is that title
\* cut to 60 characters
C9_TitleResolution ==
    Done("rule_based_analysis") =>
        ret.value.meta_title =
            IF title # <<>> THEN Prefix(title, 60)
            ELSE IF blog_text = <<>> THEN STR_Untitled
            ELSE Prefix(str_strip(strip_heading_marker(first_line(str_strip(blog_text)))), 60)

FinalKeys == {"title", "meta_title", "meta_description", "author", "date", "category",
              "slug", "canonical_url", "robots", "focus_keyword", "keywords", "tags",
              "semantic_keywords", "og_title", "og_description", "og_type",
              "twitter_card", "schema_type", "reading_time", "word_count",
              "faq_schema", "entities", "topics", "target_audience",
              "content_intent", "readability_level", "key_takeaways"}

\* the base metadata the analysis delivered, before the overrides
Base == analyze(use_ai, response, blog_text, title)

\* C3: for every base metadata mapping either analysis path delivers, an AI
\* mapping that lacks any of its fields included, generate_seo_metadata
\* raises nothing and returns a record with the one fixed set of keys, each
\* missing base field at its default and each present one carried over
C3_CompleteRecord ==
    (Done("generate_seo_metadata") /\ Base.type = "dict") =>
        /\ ret.status = "returned"
        /\ DOMAIN ret.value = FinalKeys
        /\ LET b == Base.fields
               m == ret.value
               missing(k) == k \notin DOMAIN b
           IN  /\ m.category = (IF category # <<>> THEN category
                                ELSE IF missing("category") THEN STR_General
                                ELSE b.category)
               /\ m.author = (IF author # <<>> THEN author ELSE STR_Content_Team)
               /\ m.content_intent = (IF missing("content_intent") THEN STR_informational
                                      ELSE b.content_intent)
               /\ m.meta_title = (IF title # <<>> THEN Prefix(title, 60)
                                  ELSE IF missing("meta_title") THEN STR_Untitled
                                  ELSE b.meta_title)
               /\ m.title = m.meta_title
               /\ \A k \in {"keywords", "tags", "topics", "entities", "semantic_keywords",
                            "key_takeaways", "focus_keyword", "meta_description",
                            "target_audience", "readability_level"} :
                      m[k] = (IF missing(k) THEN <<>> ELSE b[k])
               /\ m.faq_schema = (IF missing("faq_questions") THEN <<>> ELSE b.faq_questions)

C3_Witness ==
    /\ Done("generate_seo_metadata")
    /\ use_ai /\ response.kind = "json" /\ response.json.type = "dict"
    /\ DOMAIN response.json.fields = BaseFields \ {"category", "keywords"}
    /\ category = <<>> /\ author = <<>>
    /\ ret.status = "returned"
    /\ ret.value.category = STR_General
    /\ ret.value.keywords = <<>>
    /\ ret.value.author = STR_Content_Team

\* the number of whitespace-separated tokens of s: the places where one starts
TokenCount(s) ==
    Cardinality({i \in 1..Len(s) : ~IsSpace(s[i]) /\ (i = 1 \/ IsSpace(s[i - 1]))})

\* n / d rounded to the nearest integer, a half rounded up
NearestHalfUp(n, d) == CHOOSE k \in 0..(n + 1) : 2 * d * k - d <= 2 * n /\ 2 * n < 2 * d * k + d

\* n / d rounded to the nearest integer, a half rounded to the even one
NearestHalfEven(n, d) ==
    CHOOSE k \in 0..(n + 1) :
        /\ 2 * d * k - d <= 2 * n /\ 2 * n <= 2 * d * k + d
        /\ (2 * n = 2 * d * k - d \/ 2 * n = 2 * d * k + d) => k % 2 = 0

WordCountAndReadingTime(half_up) ==
    (Done("generate_seo_metadata") /\ ret.status = "returned") =>
        /\ ret.value.word_count = TokenCount(blog_text)
        /\ ret.value.reading_time =
              int_str(Max(1, IF half_up THEN NearestHalfUp(ret.value.word_count, 200)
                                        ELSE NearestHalfEven(ret.value.word_count, 200)))
                 \o STR_min_read

\* C6: word_count is the number of whitespace-separated tokens of the raw
\* text and reading_time is 'N min read' with N = max(1, round(word_count /
\* 200)), round being to the nearest integer with a half rounded up, for
\* every word count, 0 and the half-way counts 100, 300, 500 included
C6_ReadingTime_Original == WordCountAndReadingTime(TRUE)

\* C6 as amended: the same with a half rounded to the even integer, as
\* Python's round does: 500 words give '2 min read'
C6_ReadingTime == WordCountAndReadingTime(FALSE)

C6_Witness ==
    /\ Done("generate_seo_metadata") /\ ret.status = "returned"
    /\ ret.value.word_count = 500
    /\ ret.value.reading_time = <<"2">> \o STR_min_read

\* the places of the case-folded text t where w stands as a whole word
Occurrences(t, w) ==
    {i \in 1..(Len(t) - Len(w) + 1) :
        /\ SubSeq(t, i, i + Len(w) - 1) = w
        /\ i = 1 \/ ~IsWordChar(t[i - 1])
        /\ i + Len(w) > Len(t) \/ ~IsWordChar(t[i + Len(w)])}

Frequency(t, w) == Cardinality(Occurrences(t, w))

\* the words of t a keyword may be: runs of 3 or more letters, no stop words
Candidates(t) ==
    {w \in Range(word_runs(t)) :
        /\ Len(w) >= 3
        /\ \A i \in 1..Len(w) : w[i] \in LowerSet
        /\ w \notin stop_words}

\* C10: the keywords of rule_based_analysis hold no duplicate and no stop
\* word, are at most 10, stand in order of non-increasing frequency in the
\* case-folded text with words of equal frequency in order of first
\* occurrence, and leave out no word more frequent than one they hold;
\* focus_keyword is the first and tags are the first 8, capitalized
C10_Keywords ==
    Done("rule_based_analysis") =>
        LET t == str_lower(blog_text)
            kw == ret.value.keywords
            n == Len(kw)
            tags == ret.value.tags
        IN  /\ n <= 10
            /\ \A i, j \in 1..n : i < j => kw[i] # kw[j]
            /\ \A i \in 1..n : kw[i] \notin stop_words /\ kw[i] \in Candidates(t)
            /\ \A i, j \in 1..n : i < j =>
                  \/ Frequency(t, kw[i]) > Frequency(t, kw[j])
                  \/ /\ Frequency(t, kw[i]) = Frequency(t, kw[j])
                     /\ SetMin(Occurrences(t, kw[i])) < SetMin(Occurrences(t, kw[j]))
            /\ \A w \in Candidates(t) \ Range(kw) :
                  n = 10 /\ \A i \in 1..n : Frequency(t, w) <= Frequency(t, kw[i])
            /\ n > 0 => ret.value.focus_keyword = kw[1]
            /\ Len(tags) = Min(8, n)
            /\ \A i \in 1..Len(tags) : tags[i] = str_capitalize(kw[i])

C10_Witness ==
    /\ Done("rule_based_analysis")
    /\ Len(ret.value.keywords) = 10
    /\ Len(ret.value.tags) = 8
    /\ Candidates(str_lower(blog_text)) \ Range(ret.value.keywords) # {}
    /\ Frequency(str_lower(blog_text), ret.value.keywords[1]) = 3
    /\ Frequency(str_lower(blog_text), ret.value.keywords[2]) = 1

====
